---- MODULE Spec2Model ----
(***************************************************************************)
(* loopback-explorer, lib/route-helper.js and lib/translate-keys.js:       *)
(* conversion of strong-remoting routes into Swagger 1.2 API declarations. *)
(*                                                                         *)
(* JavaScript objects that the code mutates in place (routes, accepts and  *)
(* returns entries) live in a heap and are named by their index, so that   *)
(* aliasing and in-place mutation are visible.  Strings are sequences of   *)
(* one-character strings, so that split/join/indexOf/charAt are computed.  *)
(***************************************************************************)
EXTENDS Integers, Sequences, FiniteSets, TLC

VARIABLES
  routes,     \* heap of Route objects held by the caller (index = reference)
  objs,       \* heap of accepts/returns entry objects (index = reference)
  classDefs,  \* the ClassDef objects held by the caller
  doc,        \* the accumulating API declaration document
  calls,      \* history: the calls of addRouteToAPIDeclaration that returned
  last,       \* history: the last operation, its arguments and its outcome
  initial     \* history: the heaps as they were before the first operation

vars == <<routes, objs, classDefs, doc, calls, last, initial>>

(***************************************************************************)
(* Bounds of the model.                                                    *)
(***************************************************************************)
MaxCalls == 3

(***************************************************************************)
(* JavaScript values.  t is the typeof-like tag, n the number (or the      *)
(* boolean as 0/1, or for an object whether it has a `source` property),   *)
(* s the characters of a string (or the first element of an array of       *)
(* strings, the `source` of an http object, the `$ref`/`type` of an items  *)
(* object).  Absent marks a key that the object does not have.             *)
(***************************************************************************)
Absent    == [t |-> "absent",    n |-> 0, s |-> <<>>]
Undefined == [t |-> "undefined", n |-> 0, s |-> <<>>]
Str(s)    == [t |-> "string",    n |-> 0, s |-> s]
Num(n)    == [t |-> "number",    n |-> n, s |-> <<>>]
Bool(b)   == [t |-> "boolean",   n |-> IF b THEN 1 ELSE 0, s |-> <<>>]
Func      == [t |-> "function",  n |-> 0, s |-> <<>>]
Arr(e)    == [t |-> "array",     n |-> 1, s |-> e]       \* [ e ]
HttpSrc(s) == [t |-> "object",   n |-> 1, s |-> s]       \* { source: s }
HttpObj   == [t |-> "object",    n |-> 0, s |-> <<>>]    \* { }
RefItems(v) == [t |-> "$ref", n |-> IF v.t = "string" THEN 1 ELSE 0, s |-> v.s]
TypeItems(v) == [t |-> "type", n |-> IF v.t = "string" THEN 1 ELSE 0, s |-> v.s]

\* Reading a property: a key the object lacks reads as undefined.
Get(o, k) == IF o[k] = Absent THEN Undefined ELSE o[k]

\* JavaScript truthiness: `if (val)`, `a || b`, `!x`.
Truthy(v) ==
  CASE v.t \in {"absent", "undefined"} -> FALSE
    [] v.t = "number"  -> v.n # 0
    [] v.t = "boolean" -> v.n = 1
    [] v.t = "string"  -> v.s # <<>>
    [] OTHER -> TRUE

\* a || b
Or(a, b) == IF Truthy(a) THEN a ELSE b

\* v.source
PropSource(v) == IF v.t = "object" /\ v.n = 1 THEN Str(v.s) ELSE Undefined

(***************************************************************************)
(* Strings.                                                                *)
(***************************************************************************)
sData   == <<"d","a","t","a">>
sObject == <<"o","b","j","e","c","t">>
sArray  == <<"a","r","r","a","y">>
sVoid   == <<"v","o","i","d">>
sBuffer == <<"b","u","f","f","e","r">>
sByte   == <<"b","y","t","e">>
sDate   == <<"d","a","t","e">>
sDateU  == <<"D","a","t","e">>
sNumber == <<"n","u","m","b","e","r">>
sDouble == <<"d","o","u","b","l","e">>
sString == <<"s","t","r","i","n","g">>
sAll    == <<"a","l","l">>
sDel    == <<"d","e","l">>
sGet    == <<"g","e","t">>
sPOST   == <<"P","O","S","T">>
sDELETE == <<"D","E","L","E","T","E">>
sReq    == <<"r","e","q">>
sBody   == <<"b","o","d","y">>
sForm   == <<"f","o","r","m">>
sQuery  == <<"q","u","e","r","y">>
sPath   == <<"p","a","t","h">>
sTrue   == <<"t","r","u","e">>
sFalse  == <<"f","a","l","s","e">>
sUndefined == <<"u","n","d","e","f","i","n","e","d">>

LowerChars == <<"a","b","c","d","e","f","g","h","i","j","k","l","m",
                "n","o","p","q","r","s","t","u","v","w","x","y","z">>
UpperChars == <<"A","B","C","D","E","F","G","H","I","J","K","L","M",
                "N","O","P","Q","R","S","T","U","V","W","X","Y","Z">>
DigitChars == <<"0","1","2","3","4","5","6","7","8","9">>

IndexIn(c, tbl) == IF \E i \in 1..Len(tbl) : tbl[i] = c
                   THEN CHOOSE i \in 1..Len(tbl) : tbl[i] = c ELSE 0

toLowerCase(s) ==
  [i \in 1..Len(s) |->
     IF IndexIn(s[i], UpperChars) # 0 THEN LowerChars[IndexIn(s[i], UpperChars)] ELSE s[i]]

toUpperCase(s) ==
  [i \in 1..Len(s) |->
     IF IndexIn(s[i], LowerChars) # 0 THEN UpperChars[IndexIn(s[i], LowerChars)] ELSE s[i]]

\* s.split(sep) for a one-character separator: the pieces between separators
\* (an empty string splits into one empty piece).
RECURSIVE SplitFrom(_, _, _, _)
SplitFrom(s, sep, i, cur) ==
  IF i > Len(s) THEN <<cur>>
  ELSE IF s[i] = sep THEN <<cur>> \o SplitFrom(s, sep, i + 1, <<>>)
  ELSE SplitFrom(s, sep, i + 1, Append(cur, s[i]))

split(s, sep) == SplitFrom(s, sep, 1, <<>>)

\* pieces.join(sep)
RECURSIVE join(_, _)
join(pieces, sep) ==
  IF Len(pieces) = 0 THEN <<>>
  ELSE IF Len(pieces) = 1 THEN pieces[1]
  ELSE pieces[1] \o <<sep>> \o join(Tail(pieces), sep)

\* s.indexOf(sub) !== -1
Contains(s, sub) ==
  \E i \in 0..(Len(s) - Len(sub)) :
     \A j \in 1..Len(sub) : s[i + j] = sub[j]

\* s.replace(/\./g, '_')
replaceDots(s) == [i \in 1..Len(s) |-> IF s[i] = "." THEN "_" ELSE s[i]]

\* The decimal digits of a natural number.
RECURSIVE NatToString(_)
NatToString(n) ==
  IF n < 10 THEN <<DigitChars[n + 1]>>
  ELSE NatToString(n \div 10) \o <<DigitChars[(n % 10) + 1]>>

\* String(val), for the values the model gives min and max.
String(v) ==
  CASE v.t = "number"  -> Str(IF v.n < 0 THEN <<"-">> \o NatToString(-v.n)
                              ELSE NatToString(v.n))
    [] v.t = "boolean" -> Str(IF v.n = 1 THEN sTrue ELSE sFalse)
    [] v.t = "string"  -> v
    [] v.t = "array"   -> Str(v.s)

(***************************************************************************)
(* lib/translate-keys.js                                                   *)
(***************************************************************************)
\* Object.keys(KEY_TRANSLATIONS), in insertion order.
LDLKeys == <<"doc", "default", "min", "max">>

KEY_TRANSLATIONS ==
  [doc |-> "description", default |-> "defaultValue",
   min |-> "minimum", max |-> "maximum"]

\* translateKey with a presence check in place of the truthiness check.
translateKeyIfPresent(object, LDLKey) ==
  LET val == object[LDLKey]
      written ==
        IF val # Absent
        THEN [object EXCEPT ![KEY_TRANSLATIONS[LDLKey]] =
                IF LDLKey = "min" \/ LDLKey = "max" THEN String(val) ELSE val]
        ELSE object
  IN [written EXCEPT ![LDLKey] = Absent]

\* The body of the forEach callback for one LDL key, on the object's fields.
translateKey(object, LDLKey) ==
  LET val == Get(object, LDLKey)
      written ==
        IF Truthy(val)
        THEN [object EXCEPT ![KEY_TRANSLATIONS[LDLKey]] =
                IF LDLKey = "min" \/ LDLKey = "max" THEN String(val) ELSE val]
        ELSE object
  IN [written EXCEPT ![LDLKey] = Absent]

RECURSIVE translateFields(_, _)
translateFields(object, i) ==
  IF i > Len(LDLKeys) THEN object
  ELSE translateFields(translateKey(object, LDLKeys[i]), i + 1)

\* translateKeys(object): mutates the object named by ref in the heap h and
\* returns the reference it was given.
translateKeys(h, ref) ==
  [objs |-> [h EXCEPT ![ref] = translateFields(h[ref], 1)], ret |-> ref]

(***************************************************************************)
(* Objects.                                                                *)
(***************************************************************************)
\* An accepts or returns entry with none of the keys the code reads or writes.
EmptyEntry ==
  [arg |-> Absent, name |-> Absent, type |-> Absent, model |-> Absent,
   required |-> Absent, http |-> Absent, items |-> Absent,
   doc |-> Absent, default |-> Absent, min |-> Absent, max |-> Absent,
   description |-> Absent, defaultValue |-> Absent,
   minimum |-> Absent, maximum |-> Absent]

\* An array of references into the heap of entries, or no array at all.
ListOf(refs) == [t |-> "array", refs |-> refs]
NoList       == [t |-> "undefined", refs |-> <<>>]

\* route.accepts || []
OrEmpty(list) == IF list.t = "array" THEN list ELSE ListOf(<<>>)

Route(path, verb, method, accepts, returns, description) ==
  [path |-> path, verb |-> verb, method |-> method,
   accepts |-> accepts, returns |-> returns, description |-> description]

NoCtor        == [t |-> "undefined", accepts |-> NoList]
Ctor(accepts) == [t |-> "object", accepts |-> accepts]
NoClassDef    == [t |-> "undefined", name |-> Absent, sharedCtor |-> NoCtor]
ClassDef(name, ctor) == [t |-> "object", name |-> name, sharedCtor |-> ctor]

(***************************************************************************)
(* lib/route-helper.js                                                     *)
(***************************************************************************)
\* A shallow clone: a new route object that shares the entries of the original.
shallowClone(h, rid) ==
  [h |-> [h EXCEPT !.routes = Append(@, h.routes[rid])], ref |-> Len(h.routes) + 1]

\* _cloneDeep(route): a new route object whose accepts and returns arrays
\* hold new copies of the entries; nothing of the original is shared.
cloneDeep(h, rid) ==
  LET r    == h.routes[rid]
      acc  == r.accepts.refs
      ret  == r.returns.refs
      base == Len(h.objs)
      copy == [r EXCEPT
                 !.accepts.refs = [i \in 1..Len(acc) |-> base + i],
                 !.returns.refs = [i \in 1..Len(ret) |-> base + Len(acc) + i]]
  IN [h |-> [routes |-> Append(h.routes, copy),
             objs   |-> h.objs \o [i \in 1..Len(acc) |-> h.objs[acc[i]]]
                               \o [i \in 1..Len(ret) |-> h.objs[ret[i]]]],
      ref |-> Len(h.routes) + 1]

\* The condition of line 69 with the segments compared to one.
appendsSharedCtorFromTwo(method, classDef) ==
  /\ classDef.t = "object"
  /\ classDef.sharedCtor.t = "object"
  /\ classDef.sharedCtor.accepts.t = "array"
  /\ Len(split(method.s, ".")) > 1

\* The condition of line 69.
appendsSharedCtor(method, classDef) ==
  /\ classDef.t = "object"
  /\ classDef.sharedCtor.t = "object"
  /\ classDef.sharedCtor.accepts.t = "array"
  /\ Len(split(method.s, ".")) > 2

\* The filter callback without the test for the body.
keepsArgumentButReq(arg) ==
  LET http == Get(arg, "http")
  IN IF ~Truthy(http) THEN TRUE
     ELSE IF http.t = "function" THEN FALSE
     ELSE IF PropSource(http) = Str(sReq) THEN FALSE
     ELSE TRUE

\* The filter callback of lines 75-82.
keepsArgument(arg) ==
  LET http == Get(arg, "http")
  IN IF ~Truthy(http) THEN TRUE
     ELSE IF http.t = "function" THEN FALSE
     ELSE IF PropSource(http) = Str(sReq) \/ PropSource(http) = Str(sBody) THEN FALSE
     ELSE TRUE

\* array.map(translateKeys): every entry is translated in place.
RECURSIVE mapTranslateKeys(_, _, _)
mapTranslateKeys(objHeap, refs, i) ==
  IF i > Len(refs) THEN objHeap
  ELSE mapTranslateKeys(translateKeys(objHeap, refs[i]).objs, refs, i + 1)

\* Converts from an sl-remoting data type to a Swagger dataType.
prepareDataType(type) ==
  IF ~Truthy(type) THEN Str(sVoid)
  ELSE IF type.t = "array" THEN Str(sArray)
  ELSE IF type = Str(sBuffer) THEN Str(sByte)
  ELSE IF type = Str(sDate) THEN Str(sDateU)
  ELSE IF type = Str(sNumber) THEN Str(sDouble)
  ELSE type

\* Lines 86-95 without the branch for arrays.
returnsHackObjectOnly(objHeap, retRef, classDef) ==
  LET returns == objHeap[retRef]
      name    == Get(classDef, "name")
  IN IF Get(returns, "arg") = Str(sData) /\ Get(returns, "type") = Str(sObject)
     THEN [thrown |-> classDef.t # "object",
           objs |-> [objHeap EXCEPT ![retRef].type = name]]
     ELSE [thrown |-> FALSE, objs |-> objHeap]

\* Lines 86-95, for a truthy returns = route.returns[0]: the heap after the
\* fix of the return type, or the TypeError of reading classDef.name when
\* classDef is undefined.
returnsHack(objHeap, retRef, classDef) ==
  LET returns == objHeap[retRef]
      name    == Get(classDef, "name")
  IN IF Get(returns, "arg") # Str(sData)
     THEN [thrown |-> FALSE, objs |-> objHeap]
     ELSE IF Get(returns, "type") = Str(sObject)
     THEN [thrown |-> classDef.t # "object",
           objs |-> [objHeap EXCEPT ![retRef].type = name]]
     ELSE IF Get(returns, "type") = Str(sArray)
     THEN [thrown |-> classDef.t # "object",
           objs |-> [objHeap EXCEPT ![retRef].type = Str(sArray),
                                    ![retRef].items = RefItems(name)]]
     ELSE [thrown |-> FALSE, objs |-> objHeap]

\* doRouteParameterHacks(route, classDef): the processed route (a reference
\* into the heap it returns), or a TypeError.
doRouteParameterHacks(h, rid, classDef) ==
  LET c  == cloneDeep(h, rid)
      r0 == c.h.routes[c.ref]
      \* lines 68-71
      accepts1 == IF appendsSharedCtor(r0.method, classDef)
                  THEN ListOf(OrEmpty(r0.accepts).refs \o classDef.sharedCtor.accepts.refs)
                  ELSE r0.accepts
      \* lines 75-82
      accepts2 == ListOf(SelectSeq(OrEmpty(accepts1).refs,
                                   LAMBDA ref : keepsArgument(c.h.objs[ref])))
      \* lines 85-95
      hasReturns == r0.returns.t = "array" /\ Len(r0.returns.refs) > 0
      fixed == IF hasReturns THEN returnsHack(c.h.objs, r0.returns.refs[1], classDef)
               ELSE [thrown |-> FALSE, objs |-> c.h.objs]
      \* lines 98-99
      returns3 == OrEmpty(r0.returns)
      objs2 == mapTranslateKeys(fixed.objs, accepts2.refs, 1)
      objs3 == mapTranslateKeys(objs2, returns3.refs, 1)
      r3    == [r0 EXCEPT !.accepts = accepts2, !.returns = returns3]
  IN IF fixed.thrown
     THEN [thrown |-> TRUE, route |-> c.ref,
           h |-> [c.h EXCEPT !.routes[c.ref].accepts = accepts2]]
     ELSE [thrown |-> FALSE, route |-> c.ref,
           h |-> [routes |-> [c.h.routes EXCEPT ![c.ref] = r3], objs |-> objs3]]

\* Colon-style path fragments become brace-style ones.
convertPathFragments(path) ==
  LET fragments == split(path, "/")
      converted ==
        [i \in 1..Len(fragments) |->
           IF Len(fragments[i]) > 0 /\ fragments[i][1] = ":"
           THEN <<"{">> \o SubSeq(fragments[i], 2, Len(fragments[i])) \o <<"}">>
           ELSE fragments[i]]
  IN join(converted, "/")

convertVerb(verb) ==
  IF toLowerCase(verb) = sAll THEN sPOST
  ELSE IF toLowerCase(verb) = sDel THEN sDELETE
  ELSE toUpperCase(verb)

\* ':' + name
colonPlus(name) ==
  <<":">> \o (IF name.t = "undefined" THEN sUndefined ELSE String(name).s)

\* value[0]
Index0(v) ==
  IF v.t = "array" THEN Str(v.s)
  ELSE IF v.t = "string" /\ Len(v.s) > 0 THEN Str(<<v.s[1]>>)
  ELSE Undefined

\* Lines 157-161: the paramType of the route's verb.
verbParamType(route) ==
  IF toLowerCase(route.verb.s) = sGet THEN Str(sQuery) ELSE Str(sForm)

\* Lines 164-175 with the two overrides in the other order.
pathOverridesSource(route, accepts, type) ==
  LET name == Or(Get(accepts, "name"), Get(accepts, "arg"))
      http == Get(accepts, "http")
      bySource == IF Truthy(http) /\ Truthy(PropSource(http)) THEN PropSource(http) ELSE type
  IN IF Contains(route.path.s, colonPlus(name)) THEN Str(sPath) ELSE bySource

\* Lines 164-175: paramType as the two overrides leave it.
overriddenParamType(route, accepts, type) ==
  LET name == Or(Get(accepts, "name"), Get(accepts, "arg"))
      http == Get(accepts, "http")
      byPath == IF Contains(route.path.s, colonPlus(name)) THEN Str(sPath) ELSE type
  IN IF Truthy(http) /\ Truthy(PropSource(http)) THEN PropSource(http) ELSE byPath

\* The function acceptToParameter(route) returns, applied to one accepts
\* entry: the Swagger parameter, or a TypeError thrown at line 196.
acceptToParameter(route, accepts) ==
  LET type == verbParamType(route)
      name == Or(Get(accepts, "name"), Get(accepts, "arg"))
      paramType == overriddenParamType(route, accepts, type)
      outType0 == Or(Get(accepts, "model"), prepareDataType(Get(accepts, "type")))
      outType  == IF name = Str(sData) /\ outType0 = Str(sObject)
                  THEN Str(split(route.method.s, ".")[1])
                  ELSE outType0
      isArray  == outType = Str(sArray)
      thrown   == isArray /\ Get(accepts, "type").t = "undefined"
  IN [thrown |-> thrown,
      out |-> [paramType     |-> Or(paramType, type),
               name          |-> name,
               description   |-> Get(accepts, "description"),
               type          |-> outType,
               required      |-> Bool(Truthy(Get(accepts, "required"))),
               defaultValue  |-> Get(accepts, "defaultValue"),
               minimum       |-> Get(accepts, "minimum"),
               maximum       |-> Get(accepts, "maximum"),
               allowMultiple |-> Bool(FALSE),
               items         |-> IF isArray /\ ~thrown
                                 THEN TypeItems(prepareDataType(Index0(Get(accepts, "type"))))
                                 ELSE Absent]]

\* routeToAPI(route): the API description of a processed route, or the
\* TypeError of a parameter.
routeToAPI(h, ref) ==
  LET route == h.routes[ref]
      hasDesc == route.returns.t = "array" /\ Len(route.returns.refs) > 0
      returnDesc == h.objs[route.returns.refs[1]]
      params == IF route.accepts.t = "array"
                THEN [i \in 1..Len(route.accepts.refs) |->
                        acceptToParameter(route, h.objs[route.accepts.refs[i]])]
                ELSE <<>>
  IN [thrown |-> \E i \in 1..Len(params) : params[i].thrown,
      api |->
        [path |-> convertPathFragments(route.path.s),
         operations |-> <<
           [method   |-> Str(convertVerb(route.verb.s)),
            nickname |-> Str(replaceDots(route.method.s)),
            type     |-> IF hasDesc
                         THEN Or(Get(returnDesc, "model"),
                                 prepareDataType(Get(returnDesc, "type")))
                         ELSE Str(sVoid),
            items    |-> IF hasDesc THEN Get(returnDesc, "items") ELSE Str(<<>>),
            parameters |-> [i \in 1..Len(params) |-> params[i].out],
            responseMessages |-> <<>>,
            summary  |-> Get(route, "description"),
            notes    |-> Str(<<>>)] >>]]

\* A search that looks at the last API of the document only.
lastMatchingAPI(apis, path) ==
  IF Len(apis) > 0 /\ apis[Len(apis)].path = path THEN Len(apis) ELSE 0

\* The index in doc.apis of matchingAPIs[0], or 0 when matchingAPIs is empty.
firstMatchingAPI(apis, path) ==
  IF \E i \in 1..Len(apis) : apis[i].path = path
  THEN CHOOSE i \in 1..Len(apis) :
         /\ apis[i].path = path
         /\ \A j \in 1..(i - 1) : apis[j].path # path
  ELSE 0

\* addRouteToDoc putting the operation in front of the API's operations.
addRouteToDocInFront(h, ref, document) ==
  LET a == routeToAPI(h, ref)
      m == firstMatchingAPI(document.apis, a.api.path)
  IN IF a.thrown THEN [thrown |-> TRUE, doc |-> document, api |-> a.api]
     ELSE [thrown |-> FALSE, api |-> a.api,
           doc |-> IF m # 0
                   THEN [document EXCEPT !.apis[m].operations =
                           <<a.api.operations[1]>> \o @]
                   ELSE [document EXCEPT !.apis = Append(@, a.api)]]

\* addRouteToDoc(route, doc): the document after the call, or the TypeError
\* of routeToAPI, which leaves the document as it was.
addRouteToDoc(h, ref, document) ==
  LET a == routeToAPI(h, ref)
      m == firstMatchingAPI(document.apis, a.api.path)
  IN IF a.thrown THEN [thrown |-> TRUE, doc |-> document, api |-> a.api]
     ELSE [thrown |-> FALSE, api |-> a.api,
           doc |-> IF m # 0
                   THEN [document EXCEPT !.apis[m].operations =
                           Append(@, a.api.operations[1])]
                   ELSE [document EXCEPT !.apis = Append(@, a.api)]]

\* What survives a call: the caller's objects.  The clone and its entries
\* are unreachable once the call is over.
Caller(h) ==
  [routes |-> SubSeq(h.routes, 1, Len(routes)), objs |-> SubSeq(h.objs, 1, Len(objs))]

\* addRouteToAPIDeclaration(route, classDef, doc) with route = routes[r] and
\* classDef = classDefs[c].
addRouteToAPIDeclaration(r, c) ==
  LET h0 == [routes |-> routes, objs |-> objs]
      p  == doRouteParameterHacks(h0, r, classDefs[c])
      d  == addRouteToDoc(p.h, p.route, doc)
      thrown == p.thrown \/ d.thrown
  IN /\ Len(calls) < MaxCalls
     /\ routes' = Caller(p.h).routes
     /\ objs'   = Caller(p.h).objs
     /\ doc'    = IF thrown THEN doc ELSE d.doc
     /\ calls'  = IF thrown THEN calls
                  ELSE Append(calls, [r |-> r, c |-> c, path |-> d.api.path,
                                      operation |-> d.api.operations[1]])
     /\ last'   = [kind |-> "addRouteToAPIDeclaration", r |-> r, c |-> c,
                   thrown |-> thrown, ref |-> 0, ret |-> 0, before |-> h0]
     /\ UNCHANGED <<classDefs, initial>>

\* translateKeys(object) called on its own, with object = objs[ref].
translateKeysCall(ref) ==
  LET t == translateKeys(objs, ref)
  IN /\ objs' = t.objs
     /\ last' = [kind |-> "translateKeys", r |-> 0, c |-> 0, thrown |-> FALSE,
                 ref |-> ref, ret |-> t.ret,
                 before |-> [routes |-> routes, objs |-> objs]]
     /\ UNCHANGED <<routes, classDefs, doc, calls, initial>>

(***************************************************************************)
(* The caller's inputs.  A world lists routes and classDefs whose accepts  *)
(* and returns arrays are given by value; World allocates every entry in   *)
(* the heap and replaces it by its reference.                              *)
(***************************************************************************)
Vals(entries) == [t |-> "array", vals |-> entries]
NoVals        == [t |-> "undefined", vals |-> <<>>]

Alloc(objHeap, list) ==
  IF list.t = "undefined" THEN [objs |-> objHeap, list |-> NoList]
  ELSE [objs |-> objHeap \o list.vals,
        list |-> ListOf([i \in 1..Len(list.vals) |-> Len(objHeap) + i])]

RECURSIVE AllocRoutes(_, _, _)
AllocRoutes(specs, i, w) ==
  IF i > Len(specs) THEN w
  ELSE LET a == Alloc(w.objs, specs[i].accepts)
           b == Alloc(a.objs, specs[i].returns)
       IN AllocRoutes(specs, i + 1,
            [w EXCEPT !.objs = b.objs,
                      !.routes = Append(@, [specs[i] EXCEPT !.accepts = a.list,
                                                            !.returns = b.list])])

RECURSIVE AllocClassDefs(_, _, _)
AllocClassDefs(specs, i, w) ==
  IF i > Len(specs) THEN w
  ELSE LET a == Alloc(w.objs, specs[i].sharedCtor.accepts)
       IN AllocClassDefs(specs, i + 1,
            [w EXCEPT !.objs = a.objs,
                      !.classDefs = Append(@, [specs[i] EXCEPT !.sharedCtor.accepts = a.list])])

World(routeSpecs, classSpecs) ==
  AllocClassDefs(classSpecs, 1,
    AllocRoutes(routeSpecs, 1, [routes |-> <<>>, objs |-> <<>>, classDefs |-> <<>>]))

\* Strings of the inputs.
pAColon == <<"/","a","/",":","b">>
pABrace == <<"/","a","/","{","b","}">>
pC      == <<"/","c","/",":","b","/","d">>
pW      == <<"/","w">>
pWId    == <<"/","w","/",":","i","d">>
pWIdle  == <<"/","w","/",":","i","d","l","e">>
sPost   == <<"p","o","s","t">>
sGET    == <<"G","E","T">>
sGeT    == <<"G","e","T">>
sHeader == <<"h","e","a","d","e","r">>
mOne    == <<"f">>
mFind   == <<"W",".","f","i","n","d">>
mProto  == <<"W",".","p",".","f">>
sW      == <<"W">>
sM      == <<"M">>
sId     == <<"i","d">>
sX      == <<"x">>
sY      == <<"y">>

Named(name) == [EmptyEntry EXCEPT !.arg = Str(name)]

DataObject == [EmptyEntry EXCEPT !.arg = Str(sData), !.type = Str(sObject)]

\* Routes that differ in path and verb, the POST ones with a parameter and a
\* `data` return; a classDef, and no classDef.
MergeWorld ==
  LET rs == [i \in 1..6 |->
               IF i <= 3
               THEN Route(Str(<<pAColon, pABrace, pC>>[i]), Str(sGet), Str(mFind),
                          NoVals, NoVals, Absent)
               ELSE Route(Str(<<pAColon, pABrace, pC>>[i - 3]), Str(sPost), Str(mFind),
                          Vals(<<Named(<<"b">>)>>), Vals(<<DataObject>>), Str(sX))]
  IN World(rs, <<ClassDef(Str(sW), NoCtor), NoClassDef>>)

\* One route with one parameter: how it is named, its http, the route's
\* path and verb.
ParamTypeWorlds ==
  { World(<<Route(Str(p), Str(v), Str(mFind), Vals(<<e>>), NoVals, Absent)>>,
          <<ClassDef(Str(sW), NoCtor)>>) :
      p \in {pW, pWId, pWIdle},
      v \in {sGet, sGET, sGeT, sPost, sAll},
      e \in { [EmptyEntry EXCEPT !.name = n, !.arg = a, !.http = h] :
                n \in {Absent, Str(sId), Str(<<>>)},
                a \in {Absent, Str(sId)},
                h \in {Absent, HttpObj, HttpSrc(<<>>), HttpSrc(sHeader), HttpSrc(sQuery)} } }

\* Every kind of http property on the route's own parameters a and b and on
\* the shared constructor's parameter c; methods of one, two and three
\* segments; a classDef without sharedCtor, without accepts, with none.
HttpValues ==
  {Absent, Func, HttpObj, HttpSrc(sReq), HttpSrc(sBody), HttpSrc(sQuery), HttpSrc(sHeader)}

FilterWorlds ==
  { World(<<Route(Str(pW), Str(sPost), Str(m), own, NoVals, Absent)>>, <<ClassDef(Str(sW), ctor)>>) :
      m \in {mOne, mFind, mProto},
      own \in {NoVals, Vals(<<>>)} \cup
              { Vals(<< [Named(<<"a">>) EXCEPT !.http = h1],
                        [Named(<<"b">>) EXCEPT !.http = h2] >>) :
                  h1 \in HttpValues, h2 \in HttpValues },
      ctor \in {NoCtor, Ctor(NoVals), Ctor(Vals(<<>>))} \cup
               { Ctor(Vals(<< [Named(<<"c">>) EXCEPT !.http = h3] >>)) : h3 \in HttpValues } }

\* The route's returns: none, empty, or a first entry of every shape; a
\* classDef named W or number, without name, or no classDef.
ReturnsWorlds ==
  { World(<<Route(Str(pW), Str(sGet), Str(mFind), NoVals, returns, Absent)>>, <<cd>>) :
      returns \in {NoVals, Vals(<<>>)} \cup
                  { Vals(<< [EmptyEntry EXCEPT !.arg = a, !.type = t, !.model = md,
                                              !.items = it] >>) :
                      a  \in {Absent, Str(sData), Str(sId)},
                      t  \in {Absent, Str(sObject), Str(sArray), Str(sNumber), Arr(sString)},
                      md \in {Absent, Str(<<>>), Str(sM)},
                      it \in {Absent, TypeItems(Str(sString))} },
      cd \in {NoClassDef, ClassDef(Str(sW), NoCtor), ClassDef(Str(sNumber), NoCtor),
              ClassDef(Absent, NoCtor)} }

\* LDL keys on the route's parameter a, on its return and on the shared
\* constructor's parameter c; the route's parameter b is filtered out.
LDLWorlds ==
  { World(<<Route(Str(pW), Str(sGet), Str(m),
                  Vals(<< [Named(<<"a">>) EXCEPT !.doc = d1, !.max = m1],
                          [Named(<<"b">>) EXCEPT !.http = HttpSrc(sBody), !.doc = Str(sX)] >>),
                  Vals(<< [DataObject EXCEPT !.doc = Str(sX), !.min = Num(3)] >>),
                  Absent)>>,
          <<ClassDef(Str(sW),
                     Ctor(Vals(<< [Named(<<"c">>) EXCEPT !.doc = d2, !.min = m2,
                                     !.default = df, !.description = ds] >>)))>>) :
      m  \in {mFind, mProto},
      d1 \in {Absent, Str(sX)},
      m1 \in {Absent, Num(0), Num(7)},
      d2 \in {Absent, Str(sX)},
      m2 \in {Absent, Num(0), Num(5)},
      df \in {Absent, Bool(FALSE), Num(2)},
      ds \in {Absent, Str(sY)} }

\* One parameter of every type, model and required; with and without a
\* classDef.
TypeWorlds ==
  { World(<<Route(Str(pW), Str(sPost), Str(mFind), Vals(<<e>>), NoVals, Str(sX))>>, <<cd>>) :
      e \in { [EmptyEntry EXCEPT !.arg = Str(n), !.type = t, !.model = md, !.required = rq] :
                n  \in {sData, sId},
                t  \in {Absent, Str(sObject), Str(sArray), Arr(sString), Arr(sNumber),
                        Str(sNumber), Str(sDate), Str(sBuffer)},
                md \in {Absent, Str(sM), Str(sArray)},
                rq \in {Absent, Bool(TRUE), Num(0)} },
      cd \in {NoClassDef, ClassDef(Str(sW), NoCtor)} }

Worlds == {MergeWorld} \cup ParamTypeWorlds \cup FilterWorlds \cup ReturnsWorlds
            \cup LDLWorlds \cup TypeWorlds

(***************************************************************************)
(* Specification.                                                          *)
(***************************************************************************)
NoOperation ==
  [kind |-> "none", r |-> 0, c |-> 0, thrown |-> FALSE, ref |-> 0, ret |-> 0,
   before |-> [routes |-> <<>>, objs |-> <<>>]]

InitWith(w) ==
  /\ routes = w.routes
  /\ objs = w.objs
  /\ classDefs = w.classDefs
  /\ doc = [apis |-> <<>>]
  /\ calls = <<>>
  /\ last = NoOperation
  /\ initial = [routes |-> w.routes, objs |-> w.objs]

Init == \E w \in Worlds : InitWith(w)

Next == \E r \in 1..Len(routes), c \in 1..Len(classDefs) : addRouteToAPIDeclaration(r, c)

Spec == Init /\ [][Next]_vars

\* Objects for translateKeys alone: every LDL key absent, falsy or truthy,
\* with and without a value already under the Swagger key.
KeyWorlds ==
  { [routes |-> <<>>, classDefs |-> <<>>,
     objs |-> << [Named(sId) EXCEPT !.doc = d, !.default = df, !.min = mn, !.max = mx,
                                   !.description = ds, !.minimum = mm] >>] :
      d  \in {Absent, Undefined, Str(<<>>), Str(sX)},
      df \in {Absent, Num(0), Bool(FALSE), Num(5), Bool(TRUE)},
      mn \in {Absent, Num(0), Num(5), Num(12), Str(sX)},
      mx \in {Absent, Num(0), Num(7), Bool(TRUE)},
      ds \in {Absent, Str(sY)},
      mm \in {Absent, Str(<<"1">>)} }

InitKeys == \E w \in KeyWorlds : InitWith(w)

NextKeys == \E ref \in 1..Len(objs) : translateKeysCall(ref)

SpecKeys == InitKeys /\ [][NextKeys]_vars

(***************************************************************************)
(* Properties.                                                             *)
(***************************************************************************)
LastAdd  == last.kind = "addRouteToAPIDeclaration"
Returned == LastAdd /\ ~last.thrown

\* The arguments of the last call, as they were when it was made.
LastRoute    == last.before.routes[last.r]
LastClassDef == classDefs[last.c]
EntriesOf(list) == [i \in 1..Len(list.refs) |-> last.before.objs[list.refs[i]]]
OwnEntries   == EntriesOf(LastRoute.accepts)
CtorEntries  == EntriesOf(LastClassDef.sharedCtor.accepts)
HasReturns   == Len(LastRoute.returns.refs) > 0
FirstReturn  == last.before.objs[LastRoute.returns.refs[1]]

\* The operation the last call added.
LastOperation == calls[Len(calls)].operation
ParamNames == [i \in 1..Len(LastOperation.parameters) |-> LastOperation.parameters[i].name]

NameOf(entry) == IF Truthy(entry.name) THEN entry.name ELSE Get(entry, "arg")
NamesOf(entries) == [i \in 1..Len(entries) |-> NameOf(entries[i])]

\* An entry the filter is to drop: http a function, or http.source req or body.
Dropped(entry) ==
  \/ entry.http.t = "function"
  \/ entry.http.t = "object" /\ entry.http.n = 1 /\ entry.http.s \in {sReq, sBody}

Undropped(entries) == SelectSeq(entries, LAMBDA e : ~Dropped(e))

\* The method has more than two dot-separated segments.
DeepMethod == Cardinality({i \in 1..Len(LastRoute.method.s) : LastRoute.method.s[i] = "."}) >= 2

SharedCtorApplies ==
  /\ LastClassDef.t = "object"
  /\ LastClassDef.sharedCtor.t = "object"
  /\ LastClassDef.sharedCtor.accepts.t = "array"
  /\ DeepMethod

\* The entries that are to become the parameters, in order.
ParameterSources ==
  Undropped(OwnEntries) \o (IF SharedCtorApplies THEN Undropped(CtorEntries) ELSE <<>>)

\* The entries of a route and of a shared constructor all have different
\* names, so that a parameter's name tells which entry it comes from.
DistinctNames ==
  \A c \in 1..Len(classDefs), r \in 1..Len(initial.routes) :
    LET es == [i \in 1..Len(initial.routes[r].accepts.refs) |->
                 initial.objs[initial.routes[r].accepts.refs[i]]]
              \o [i \in 1..Len(classDefs[c].sharedCtor.accepts.refs) |->
                 initial.objs[classDefs[c].sharedCtor.accepts.refs[i]]]
    IN \A i, j \in 1..Len(es) : i # j => NameOf(es[i]) # NameOf(es[j])

\* C1: doc.apis never holds two entries with the same path, also when raw
\* paths that differ convert to the same path.
C1_NoDuplicatePath ==
  \A i, j \in 1..Len(doc.apis) : i # j => doc.apis[i].path # doc.apis[j].path

C1_Witness ==
  /\ \E i, j \in 1..Len(calls) :
       /\ routes[calls[i].r].path.s = pAColon
       /\ routes[calls[j].r].path.s = pABrace
  /\ \E k \in 1..Len(doc.apis) :
       doc.apis[k].path = pABrace /\ Len(doc.apis[k].operations) >= 2

\* The paths of the calls, each once, in the order in which they were first seen.
RECURSIVE FirstSeen(_, _)
FirstSeen(cs, n) ==
  IF n = 0 THEN <<>>
  ELSE LET earlier == FirstSeen(cs, n - 1)
       IN IF \E i \in 1..Len(earlier) : earlier[i] = cs[n].path
          THEN earlier ELSE Append(earlier, cs[n].path)

OperationsAt(cs, path) ==
  LET on == SelectSeq(cs, LAMBDA call : call.path = path)
  IN [i \in 1..Len(on) |-> on[i].operation]

Grouped(cs) ==
  LET paths == FirstSeen(cs, Len(cs))
  IN [i \in 1..Len(paths) |-> [path |-> paths[i], operations |-> OperationsAt(cs, paths[i])]]

RECURSIVE SumOperations(_, _)
SumOperations(apis, n) ==
  IF n = 0 THEN 0 ELSE SumOperations(apis, n - 1) + Len(apis[n].operations)

\* C2: the document is the order-preserving grouping of the calls that
\* returned by converted path: as many operations as calls, the apis in the
\* order their path was first seen, the operations of an api in call order.
C2_GroupedInCallOrder ==
  /\ doc.apis = Grouped(calls)
  /\ SumOperations(doc.apis, Len(doc.apis)) = Len(calls)
  /\ \A i \in 1..Len(calls) :
       calls[i].path = convertPathFragments(routes[calls[i].r].path.s)

C2_Witness ==
  /\ Len(calls) = 3
  /\ Len(doc.apis) = 2
  /\ \E k \in 1..Len(doc.apis) :
       /\ Len(doc.apis[k].operations) = 2
       /\ doc.apis[k].operations[1] = doc.apis[k].operations[2]

RouteRefs(r) == {r.accepts.refs[i] : i \in 1..Len(r.accepts.refs)}
                  \cup {r.returns.refs[i] : i \in 1..Len(r.returns.refs)}

\* C3: the route objects and their accepts and returns entries are as they
\* were before the first call, and the same route with the same classDef
\* yields the same operation every time.
C3_RouteNotMutated ==
  /\ routes = initial.routes
  /\ \A r \in 1..Len(routes) : \A ref \in RouteRefs(initial.routes[r]) :
       objs[ref] = initial.objs[ref]
  /\ \A i, j \in 1..Len(calls) :
       calls[i].r = calls[j].r /\ calls[i].c = calls[j].c
         => calls[i].operation = calls[j].operation

C3_Witness ==
  /\ Returned
  /\ Len(calls) >= 2
  /\ calls[Len(calls)].r = calls[Len(calls) - 1].r
  /\ Len(OwnEntries) = 2
  /\ Truthy(objs[LastRoute.accepts.refs[1]].doc)
  /\ Dropped(objs[LastRoute.accepts.refs[2]])
  /\ HasReturns
  /\ FirstReturn.arg = Str(sData)
  /\ Truthy(objs[LastRoute.returns.refs[1]].min)
  /\ Len(LastOperation.parameters) >= 1
  /\ LastOperation.parameters[1].description = Str(sX)

\* C4: no entry of any classDef.sharedCtor.accepts is changed by a call.
C4_ClassDefNotMutated ==
  \A c \in 1..Len(classDefs) :
    \A i \in 1..Len(classDefs[c].sharedCtor.accepts.refs) :
      LET ref == classDefs[c].sharedCtor.accepts.refs[i]
      IN objs[ref] = initial.objs[ref]

\* C5: every call of addRouteToAPIDeclaration completes without an error.
C5_NeverThrows == LastAdd => ~last.thrown

\* C6: no parameter comes from an entry whose http is a function or has
\* source req or body, of the route or of the shared constructor; the other
\* entries of the route yield one parameter each, in order, and so do those
\* of the shared constructor where it contributes; no paramType is body or req.
C6_FilteredParameters ==
  Returned =>
    LET names == ParamNames
        own   == NamesOf(OwnEntries)
        ctor  == NamesOf(CtorEntries)
        fromOwn  == SelectSeq(names, LAMBDA n : \E i \in 1..Len(own) : own[i] = n)
        fromCtor == SelectSeq(names, LAMBDA n : \E i \in 1..Len(ctor) : ctor[i] = n)
    IN /\ \A i \in 1..Len(OwnEntries) :
            Dropped(OwnEntries[i]) => \A k \in 1..Len(names) : names[k] # own[i]
       /\ \A i \in 1..Len(CtorEntries) :
            Dropped(CtorEntries[i]) => \A k \in 1..Len(names) : names[k] # ctor[i]
       /\ fromOwn = NamesOf(Undropped(OwnEntries))
       /\ fromCtor = <<>> \/ fromCtor = NamesOf(Undropped(CtorEntries))
       /\ Len(fromOwn) + Len(fromCtor) = Len(names)
       /\ \A k \in 1..Len(names) :
            LastOperation.parameters[k].paramType \notin {Str(sBody), Str(sReq)}

C6_Witness ==
  /\ Returned
  /\ Len(OwnEntries) = 2
  /\ OwnEntries[1].http = Func
  /\ OwnEntries[2].http = HttpSrc(sHeader)
  /\ Len(CtorEntries) = 1
  /\ CtorEntries[1].http = HttpSrc(sBody)
  /\ DeepMethod
  /\ ParamNames = <<Str(<<"b">>)>>

\* The text of a min or max value.
MinMaxText(v) ==
  CASE v = Num(5)  -> Str(<<"5">>)
    [] v = Num(7)  -> Str(<<"7">>)
    [] v = Num(12) -> Str(<<"1","2">>)
    [] v = Bool(TRUE) -> Str(sTrue)
    [] v = Str(sX) -> Str(sX)

IsFalsy(v) == v \in {Absent, Undefined, Num(0), Str(<<>>), Bool(FALSE)}

\* C7: after translateKeys every truthy doc, default, min and max is under
\* description, defaultValue, minimum and maximum, as a string for min and
\* max; the four LDL keys are gone; a falsy one leaves its Swagger key as it
\* was; the other keys are as they were; the object given is the one returned.
C7_KeysTranslated ==
  last.kind = "translateKeys" =>
    LET b == last.before.objs[last.ref]
        a == objs[last.ref]
    IN /\ last.ret = last.ref
       /\ a.doc = Absent /\ a.default = Absent /\ a.min = Absent /\ a.max = Absent
       /\ a.description  = IF IsFalsy(b.doc) THEN b.description ELSE b.doc
       /\ a.defaultValue = IF IsFalsy(b.default) THEN b.defaultValue ELSE b.default
       /\ a.minimum = IF IsFalsy(b.min) THEN b.minimum ELSE MinMaxText(b.min)
       /\ a.maximum = IF IsFalsy(b.max) THEN b.maximum ELSE MinMaxText(b.max)
       /\ \A k \in {"arg", "name", "type", "model", "required", "http", "items"} :
            a[k] = b[k]
       /\ \A ref \in 1..Len(objs) : ref # last.ref => objs[ref] = last.before.objs[ref]

C7_Witness ==
  /\ last.kind = "translateKeys"
  /\ last.before.objs[last.ref].doc = Str(sX)
  /\ last.before.objs[last.ref].default = Num(0)
  /\ last.before.objs[last.ref].min = Num(12)
  /\ last.before.objs[last.ref].max = Bool(TRUE)
  /\ last.before.objs[last.ref].description = Str(sY)
  /\ objs[last.ref].minimum = Str(<<"1","2">>)
  /\ objs[last.ref].defaultValue = Absent
  /\ objs[last.ref].description = Str(sX)

\* The Data-Type Mapper of the specification.
MappedType(v) ==
  CASE IsFalsy(v) -> Str(sVoid)
    [] v.t = "array" -> Str(sArray)
    [] v = Str(sBuffer) -> Str(sByte)
    [] v = Str(sDate) -> Str(sDateU)
    [] v = Str(sNumber) -> Str(sDouble)
    [] OTHER -> v

IsData(entry) == entry.arg = Str(sData)

NonEmpty(v) == ~IsFalsy(v)

\* The part of C8 about a returns[0] whose arg is not 'data': the type is
\* the entry's model if it has one (an empty model counts as none), else its
\* type as the Data-Type Mapper maps it; items is the entry's own.
PlainReturn ==
  Returned /\ HasReturns /\ ~IsData(FirstReturn) =>
    /\ LastOperation.type = IF NonEmpty(FirstReturn.model) THEN FirstReturn.model
                            ELSE MappedType(FirstReturn.type)
    /\ LastOperation.items = Get(FirstReturn, "items")

NamedClassDef == LastClassDef.t = "object" /\ LastClassDef.name.t = "string"

\* C8 as claimed: with returns[0] of arg 'data' and a classDef named N, type
\* 'object' gives the operation type N, type 'array' gives type 'array' and
\* items {'$ref': N}.
C8_Claimed ==
  /\ PlainReturn
  /\ Returned /\ HasReturns /\ IsData(FirstReturn) /\ NamedClassDef =>
       /\ FirstReturn.type = Str(sObject) => LastOperation.type = LastClassDef.name
       /\ FirstReturn.type = Str(sArray) =>
            /\ LastOperation.type = Str(sArray)
            /\ LastOperation.items = [t |-> "$ref", n |-> 1, s |-> LastClassDef.name.s]

\* C8, amended: the operation type is the entry's model where it has one,
\* whatever its arg.  Without one: with arg 'data' and a
\* classDef named N, type 'object' gives N as the Data-Type Mapper maps it
\* and type 'array' gives 'array'; with another arg the type is the entry's
\* type as the Data-Type Mapper maps it.  Type 'array' with arg 'data' gives
\* items {'$ref': N}, another arg the entry's own items.
C8_ReturnType ==
  /\ PlainReturn
  /\ Returned /\ HasReturns /\ NonEmpty(FirstReturn.model) =>
       LastOperation.type = FirstReturn.model
  /\ Returned /\ HasReturns /\ IsData(FirstReturn) /\ NamedClassDef =>
       /\ FirstReturn.type = Str(sObject) =>
            LastOperation.type = IF NonEmpty(FirstReturn.model) THEN FirstReturn.model
                                 ELSE MappedType(LastClassDef.name)
       /\ FirstReturn.type = Str(sArray) =>
            /\ LastOperation.type = IF NonEmpty(FirstReturn.model) THEN FirstReturn.model
                                    ELSE Str(sArray)
            /\ LastOperation.items = [t |-> "$ref", n |-> 1, s |-> LastClassDef.name.s]

C8_Witness ==
  /\ Returned /\ HasReturns /\ IsData(FirstReturn) /\ NamedClassDef
  /\ FirstReturn.type = Str(sArray)
  /\ FirstReturn.model = Absent
  /\ FirstReturn.items = TypeItems(Str(sString))
  /\ LastClassDef.name = Str(sW)
  /\ LastOperation.type = Str(sArray)
  /\ LastOperation.items = [t |-> "$ref", n |-> 1, s |-> sW]

\* The paramType an entry is to get.
ExpectedParamType(entry) ==
  IF entry.http.t = "object" /\ entry.http.n = 1 /\ entry.http.s # <<>>
  THEN Str(entry.http.s)
  ELSE IF Contains(LastRoute.path.s, colonPlus(NameOf(entry))) THEN Str(sPath)
  ELSE IF LastRoute.verb.s \in {sGet, sGET, sGeT} THEN Str(sQuery)
  ELSE Str(sForm)

\* C9: the paramType of a parameter is its http.source where it has a
\* truthy one, else 'path' where the route's raw path contains ':' + name,
\* else 'query' for the verb GET in any case and 'form' for any other verb.
C9_ParamTypePriority ==
  Returned /\ Len(LastOperation.parameters) = Len(ParameterSources) =>
    \A i \in 1..Len(ParameterSources) :
      LastOperation.parameters[i].paramType = ExpectedParamType(ParameterSources[i])

\* A parameter named id of a POST route on /w/:idle, with an http that has no
\* source, is a path parameter.
C9_Witness ==
  /\ Returned
  /\ LastRoute.path.s = pWIdle
  /\ LastRoute.verb.s = sPost
  /\ Len(OwnEntries) = 1
  /\ NameOf(OwnEntries[1]) = Str(sId)
  /\ OwnEntries[1].http = HttpObj
  /\ LastOperation.parameters[1].paramType = Str(sPath)

\* C10: the parameters are those of the route's own accepts, followed by
\* those of the shared constructor's accepts exactly when classDef.sharedCtor
\* .accepts exists and the method has more than two segments.
C10_SharedCtorParameters ==
  Returned =>
    ParamNames = NamesOf(Undropped(OwnEntries))
                   \o (IF SharedCtorApplies THEN NamesOf(Undropped(CtorEntries)) ELSE <<>>)

C10_Witness ==
  /\ Returned
  /\ SharedCtorApplies
  /\ Len(OwnEntries) = 2
  /\ ParamNames = <<Str(<<"a">>), Str(<<"b">>), Str(<<"c">>)>>

====
